---- MODULE Spec2Model ----
(***************************************************************************)
(* The ZK file transfer contract of sei-zkp-file-transfer as a state       *)
(* machine.  The repository holds two builds of the contract:              *)
(*   "zk"   src/src/lib.rs       record_transfer takes a Groth16 proof and *)
(*                               verifies it; errors are ContractError     *)
(*   "main" src/main/src/lib.rs  record_transfer takes no proof and        *)
(*                               validates the recipient address; errors   *)
(*                               are StdError                              *)
(* `variant` says which build is deployed.  Every action is one entry      *)
(* point call, run to completion: it reads the stored State, returns a     *)
(* Response or an error and writes the State exactly where the code calls  *)
(* deps.storage.set.  A Rust panic (unwrap on None, a slice out of range,  *)
(* a checked multiplication that overflows) aborts the call: kind "Panic". *)
(***************************************************************************)
EXTENDS Integers, Sequences, FiniteSets, TLC

VARIABLES variant, storage, call, response, recorded

vars == <<variant, storage, call, response, recorded>>

(***************************************************************************)
(* Bounds of the model.                                                    *)
(***************************************************************************)
\* the ledger is capped at this many transfers (the code has no cap)
MaxTransfers == 2
\* generate_random_parameters draws its toxic waste from 1..NumCrs: two calls draw
\* independently, and may draw the same (in the code with negligible probability)
NumCrs == 2
\* the scalar field is Z_ScalarModulus (the code's is the BLS12-381 scalar field)
ScalarModulus == 7

(***************************************************************************)
(* Program constants.                                                      *)
(***************************************************************************)
\* basis points of 100%: the divisor of the fee and the largest rate set_fee_percentage accepts
BASIS_POINTS == 10000
\* the number of bytes Scalar::from_bytes reads: file_hash[..32], recipient[..32]
SCALAR_BYTES == 32
\* Uint128::MAX, scaled to the width of the model's integers
Uint128Max == 2147483647

Variants == {"zk", "main"}

(***************************************************************************)
(* Inputs.  A string is known by its byte length and by the value of its   *)
(* first SCALAR_BYTES bytes read as a little-endian integer.               *)
(***************************************************************************)
\* addresses the host hands over as info.sender
Senders == {"a1", "a2"}
\* recipient strings of a message: two valid addresses and a 3-byte string that is none
Recipients == {"a1", "a2", "x"}
\* the recipient strings sent to the main build, which reads a file hash and a valid
\* recipient for their equality alone: its recordable pairs differ by file hash, the zk
\* build's by recipient
MainRecipients == {"a1", "x"}
\* file_hash strings of a message: a 64-character hex digest and a 6-byte string
FileHashes == {"h1", "hs"}

\* s.len(): the number of bytes of string s
ByteLen(s) ==
    CASE s = "h1" -> 64
      [] s = "hs" -> 6
      [] s = "a1" -> 42
      [] s = "a2" -> 42
      [] OTHER -> 3

\* the little-endian integer held by the first SCALAR_BYTES bytes of s (ByteLen(s) >= SCALAR_BYTES)
LeValue(s) ==
    CASE s = "h1" -> 1
      [] s = "a1" -> 2
      [] s = "a2" -> 3
      [] OTHER -> 0

\* deps.api.addr_validate: the host accepts exactly its own addresses
AddrValid(s) == s \in Senders

Rates == {0, 250, BASIS_POINTS, BASIS_POINTS + 1}
Coin(d, a) == [denom |-> d, amount |-> a]
\* info.funds: the coins attached to a call
FundsSet == { <<>>, <<Coin("uatom", 7), Coin("usei", 10003)>> }
WithdrawAmounts == {0, 5}
\* what the bank module answers for the contract's usei balance
Balances == {0, 5}
\* env.block.time.seconds(): no handler branches on it, the model has one block time
Times == {1}
CrsSeeds == 1..NumCrs

(***************************************************************************)
(* mod zk_proof (zk build).  A [u8; 32] array is its little-endian value.  *)
(***************************************************************************)
\* Scalar::from_bytes: Some(v) for a canonical encoding (v below the modulus), else None
Scalar_from_bytes(v) == IF v < ScalarModulus THEN <<v>> ELSE <<>>

\* synthesize with the constraint secret * 1 = file_hash * recipient
Satisfied_product(h, r, s) == (s * 1) % ScalarModulus = (h * r) % ScalarModulus

\* FileTransferCircuit::synthesize: the one constraint, secret * 1 = file_hash + recipient
Satisfied(h, r, s) == (s * 1) % ScalarModulus = (h + r) % ScalarModulus

\* Proof::new with generate_random_parameters drawing `seed`: the blob create_random_proof
\* writes.  By Groth16's completeness and soundness a blob is accepted exactly by the
\* verifying key of its own parameters, for its own public inputs, when the witness
\* satisfies the circuit: the blob is modelled by those three things.
Proof_new(seed, file_hash, recipient, secret) ==
    [wf |-> TRUE, params |-> seed, inputs |-> <<file_hash, recipient>>,
     witness_ok |-> Satisfied(file_hash, recipient, secret)]

\* a byte vector Proof::read rejects (empty, truncated, not curve points)
MalformedBlob == [wf |-> FALSE, params |-> 0, inputs |-> <<0, 0>>, witness_ok |-> FALSE]

\* bellman::groth16::verify_proof against the verifying key of parameters `seed`
verify_proof(seed, proof, inputs) ==
    proof.params = seed /\ proof.inputs = inputs /\ proof.witness_ok

\* Proof::verify with its own generate_random_parameters drawing `seed`:
\* "panic" where an unwrap or the [..32] slice fails, else "true" / "false"
Proof_verify(seed, blob, file_hash, recipient) ==
    IF ~blob.wf THEN "panic"
    ELSE IF ByteLen(file_hash) < SCALAR_BYTES THEN "panic"
    ELSE IF Scalar_from_bytes(LeValue(file_hash)) = <<>> THEN "panic"
    ELSE IF ByteLen(recipient) < SCALAR_BYTES THEN "panic"
    ELSE IF Scalar_from_bytes(LeValue(recipient)) = <<>> THEN "panic"
    ELSE IF verify_proof(seed, blob, <<LeValue(file_hash), LeValue(recipient)>>)
         THEN "true" ELSE "false"

\* the strings a prover can turn into the [u8; 32] inputs of Proof::new
Provable(s) == ByteLen(s) >= SCALAR_BYTES /\ LeValue(s) < ScalarModulus
\* the blob an honest prover makes for (file_hash, recipient): the secret satisfies the relation
HonestProof(seed, file_hash, recipient) ==
    Proof_new(seed, LeValue(file_hash), LeValue(recipient),
              (LeValue(file_hash) + LeValue(recipient)) % ScalarModulus)

\* what generate_random_parameters draws inside the Proof::new calls of the provers
ProverSeeds == {1}
\* the zk_proof byte vectors of a message: one that does not parse, the honest proofs of the
\* provable pairs, and a proof for (h1, a1) made with the secret 0, which is not h1 + a1
ProofBlobs ==
    {MalformedBlob}
    \cup { HonestProof(c, fh, r) :
             c \in ProverSeeds, fh \in {f \in FileHashes : Provable(f)},
             r \in {a \in Recipients : Provable(a)} }
    \cup { Proof_new(c, LeValue("h1"), LeValue("a1"), 0) : c \in ProverSeeds }

(***************************************************************************)
(* State, responses and errors.                                            *)
(***************************************************************************)
\* struct FileTransfer
FileTransfer(file_hash, sender, recipient, timestamp, transfer_fee) ==
    [file_hash |-> file_hash, sender |-> sender, recipient |-> recipient,
     timestamp |-> timestamp, transfer_fee |-> transfer_fee]

\* struct State, held under the storage key b"state"; storage is <<>> before instantiate
State(file_transfers, admin, fee_percentage) ==
    [file_transfers |-> file_transfers, admin |-> admin, fee_percentage |-> fee_percentage]

\* what a call hands back: Ok(Response) with its attributes and messages, an error, or a panic
Resp(kind, msg, attrs, msgs) == [kind |-> kind, msg |-> msg, attrs |-> attrs, msgs |-> msgs]
Ok(attrs, msgs) == Resp("Ok", "", attrs, msgs)
Err(kind, msg) == Resp(kind, msg, <<>>, <<>>)
Panic == Err("Panic", "")

\* enum ContractError (zk build)
Unauthorized == Err("ContractError::Unauthorized", "Unauthorized")
InvalidProof == Err("ContractError::InvalidProof", "Invalid ZK Proof")
DuplicateTransfer == Err("ContractError::DuplicateTransfer", "File transfer already exists")
InsufficientFunds == Err("ContractError::InsufficientFunds", "Insufficient funds")
\* StdError::generic_err and StdError::not_found (both builds)
generic_err(msg) == Err("StdError::GenericErr", msg)
not_found(kind) == Err("StdError::NotFound", kind)
FeeRangeMsg == "Fee percentage must be between 0 and 10000 (100.00%)"

\* what a handler returns: the storage it leaves and its response
Outcome(st, resp) == [storage |-> st, response |-> resp]

\* any_transfer with the recipient compared to the wrong field of the transfer
any_transfer_wrong_field(file_transfers, file_hash, recipient) ==
    \E i \in 1..Len(file_transfers) :
        file_transfers[i].file_hash = file_hash /\ file_transfers[i].sender = recipient

\* state.file_transfers.iter().any(|t| t.file_hash == file_hash && t.recipient == recipient)
any_transfer(file_transfers, file_hash, recipient) ==
    \E i \in 1..Len(file_transfers) :
        file_transfers[i].file_hash = file_hash /\ file_transfers[i].recipient = recipient

\* info.funds.iter().find(|c| c.denom == "usei").map(|c| c.amount).unwrap_or_default()
transfer_amount(funds) ==
    LET usei == {i \in 1..Len(funds) : funds[i].denom = "usei"}
    IN IF usei = {} THEN 0
       ELSE funds[CHOOSE i \in usei : \A j \in usei : i <= j].amount

\* Uint128 * Uint128 panics on overflow
mul_overflows(a, b) == b # 0 /\ a > Uint128Max \div b

\* transfer_fee with the rate taken as a percentage, not as basis points
transfer_fee_percent(amount, fee_percentage) == (amount * fee_percentage) \div 100

\* transfer_amount * state.fee_percentage / Uint128::new(10000)
transfer_fee(amount, fee_percentage) == (amount * fee_percentage) \div BASIS_POINTS

(***************************************************************************)
(* The handlers of the zk build, src/src/lib.rs.  `st` is the storage the  *)
(* call finds: <<>> or <<State>>.                                          *)
(***************************************************************************)
\* instantiate leaving the admin unset
instantiate_admin_unset(st, sender, fee_percentage) ==
    Outcome(<<State(<<>>, "", fee_percentage)>>, Ok(<<>>, <<>>))

\* instantiate: no check of msg.fee_percentage; Response::default()
instantiate(st, sender, fee_percentage) ==
    Outcome(<<State(<<>>, sender, fee_percentage)>>, Ok(<<>>, <<>>))

\* record_transfer with the proof verified before the duplicate check
record_transfer_verify_first(st, sender, time, funds, file_hash, recipient, zk_proof, seed) ==
    IF st = <<>> THEN Outcome(st, Panic)
    ELSE LET state == st[1]
             verified == Proof_verify(seed, zk_proof, file_hash, recipient) IN
    IF verified = "panic" THEN Outcome(st, Panic)
    ELSE IF verified = "false" THEN Outcome(st, InvalidProof)
    ELSE IF any_transfer(state.file_transfers, file_hash, recipient)
    THEN Outcome(st, DuplicateTransfer)
    ELSE LET amount == transfer_amount(funds) IN
    IF mul_overflows(amount, state.fee_percentage) THEN Outcome(st, Panic)
    ELSE LET fee == transfer_fee(amount, state.fee_percentage)
             transfer == FileTransfer(file_hash, sender, recipient, time, fee)
         IN Outcome(<<[state EXCEPT !.file_transfers = Append(@, transfer)]>>,
                    Ok(<< <<"action", "record_transfer">>, <<"file_hash", file_hash>>,
                          <<"recipient", recipient>>, <<"transfer_fee", ToString(fee)>> >>,
                       <<>>))

\* record_transfer putting the new transfer in front of the ledger
record_transfer_prepend(st, sender, time, funds, file_hash, recipient, zk_proof, seed) ==
    IF st = <<>> THEN Outcome(st, Panic)
    ELSE LET state == st[1] IN
    IF any_transfer(state.file_transfers, file_hash, recipient)
    THEN Outcome(st, DuplicateTransfer)
    ELSE LET verified == Proof_verify(seed, zk_proof, file_hash, recipient) IN
    IF verified = "panic" THEN Outcome(st, Panic)
    ELSE IF verified = "false" THEN Outcome(st, InvalidProof)
    ELSE LET amount == transfer_amount(funds) IN
    IF mul_overflows(amount, state.fee_percentage) THEN Outcome(st, Panic)
    ELSE LET fee == transfer_fee(amount, state.fee_percentage)
             transfer == FileTransfer(file_hash, sender, recipient, time, fee)
         IN Outcome(<<[state EXCEPT !.file_transfers = <<transfer>> \o @]>>,
                    Ok(<< <<"action", "record_transfer">>, <<"file_hash", file_hash>>,
                          <<"recipient", recipient>>, <<"transfer_fee", ToString(fee)>> >>,
                       <<>>))

\* record_transfer; `seed` is what generate_random_parameters draws inside Proof::verify
record_transfer(st, sender, time, funds, file_hash, recipient, zk_proof, seed) ==
    IF st = <<>> THEN Outcome(st, Panic)
    ELSE LET state == st[1] IN
    IF any_transfer(state.file_transfers, file_hash, recipient)
    THEN Outcome(st, DuplicateTransfer)
    ELSE LET verified == Proof_verify(seed, zk_proof, file_hash, recipient) IN
    IF verified = "panic" THEN Outcome(st, Panic)
    ELSE IF verified = "false" THEN Outcome(st, InvalidProof)
    ELSE LET amount == transfer_amount(funds) IN
    IF mul_overflows(amount, state.fee_percentage) THEN Outcome(st, Panic)
    ELSE LET fee == transfer_fee(amount, state.fee_percentage)
             transfer == FileTransfer(file_hash, sender, recipient, time, fee)
         IN Outcome(<<[state EXCEPT !.file_transfers = Append(@, transfer)]>>,
                    Ok(<< <<"action", "record_transfer">>, <<"file_hash", file_hash>>,
                          <<"recipient", recipient>>, <<"transfer_fee", ToString(fee)>> >>,
                       <<>>))

\* BankMsg::Send { to_address, amount: vec![Coin { denom: "usei", amount }] }
BankSend(to_address, amount) ==
    [to_address |-> to_address, amount |-> <<Coin("usei", amount)>>]

\* withdraw_fees; `balance` is what query_balance gets from the bank module
withdraw_fees(st, sender, amount, balance) ==
    IF st = <<>> THEN Outcome(st, Panic)
    ELSE LET state == st[1] IN
    IF sender # state.admin THEN Outcome(st, Unauthorized)
    ELSE IF balance < amount THEN Outcome(st, InsufficientFunds)
    ELSE Outcome(st, Ok(<< <<"action", "withdraw_fees">>, <<"amount", ToString(amount)>> >>,
                        <<BankSend(sender, amount)>>))

\* set_fee_percentage with the range checked before the sender
set_fee_percentage_range_first(st, sender, percentage) ==
    IF st = <<>> THEN Outcome(st, Panic)
    ELSE LET state == st[1] IN
    IF percentage > BASIS_POINTS THEN Outcome(st, generic_err(FeeRangeMsg))
    ELSE IF sender # state.admin THEN Outcome(st, Unauthorized)
    ELSE Outcome(<<[state EXCEPT !.fee_percentage = percentage]>>,
                 Ok(<< <<"action", "set_fee_percentage">>,
                       <<"percentage", ToString(percentage)>> >>, <<>>))

\* set_fee_percentage rejecting 10000 as well
set_fee_percentage_strict(st, sender, percentage) ==
    IF st = <<>> THEN Outcome(st, Panic)
    ELSE LET state == st[1] IN
    IF sender # state.admin THEN Outcome(st, Unauthorized)
    ELSE IF percentage >= BASIS_POINTS THEN Outcome(st, generic_err(FeeRangeMsg))
    ELSE Outcome(<<[state EXCEPT !.fee_percentage = percentage]>>,
                 Ok(<< <<"action", "set_fee_percentage">>,
                       <<"percentage", ToString(percentage)>> >>, <<>>))

\* set_fee_percentage writing the State before the range check
set_fee_percentage_store_first(st, sender, percentage) ==
    IF st = <<>> THEN Outcome(st, Panic)
    ELSE LET state == st[1] IN
    IF sender # state.admin THEN Outcome(st, Unauthorized)
    ELSE IF percentage > BASIS_POINTS
    THEN Outcome(<<[state EXCEPT !.fee_percentage = percentage]>>, generic_err(FeeRangeMsg))
    ELSE Outcome(<<[state EXCEPT !.fee_percentage = percentage]>>,
                 Ok(<< <<"action", "set_fee_percentage">>,
                       <<"percentage", ToString(percentage)>> >>, <<>>))

\* set_fee_percentage storing a State with no transfers
set_fee_percentage_resets_transfers(st, sender, percentage) ==
    IF st = <<>> THEN Outcome(st, Panic)
    ELSE LET state == st[1] IN
    IF sender # state.admin THEN Outcome(st, Unauthorized)
    ELSE IF percentage > BASIS_POINTS THEN Outcome(st, generic_err(FeeRangeMsg))
    ELSE Outcome(<<State(<<>>, state.admin, percentage)>>,
                 Ok(<< <<"action", "set_fee_percentage">>,
                       <<"percentage", ToString(percentage)>> >>, <<>>))

\* set_fee_percentage
set_fee_percentage(st, sender, percentage) ==
    IF st = <<>> THEN Outcome(st, Panic)
    ELSE LET state == st[1] IN
    IF sender # state.admin THEN Outcome(st, Unauthorized)
    ELSE IF percentage > BASIS_POINTS THEN Outcome(st, generic_err(FeeRangeMsg))
    ELSE Outcome(<<[state EXCEPT !.fee_percentage = percentage]>>,
                 Ok(<< <<"action", "set_fee_percentage">>,
                       <<"percentage", ToString(percentage)>> >>, <<>>))

(***************************************************************************)
(* The handlers of the main build, src/main/src/lib.rs.                    *)
(***************************************************************************)
\* instantiate: no check of msg.fee_percentage
main_instantiate(st, sender, fee_percentage) ==
    Outcome(<<State(<<>>, sender, fee_percentage)>>,
            Ok(<< <<"method", "instantiate">> >>, <<>>))

\* record_transfer: no proof in the message; the recipient goes through addr_validate
main_record_transfer(st, sender, time, funds, file_hash, recipient) ==
    IF st = <<>> THEN Outcome(st, not_found("State"))
    ELSE LET state == st[1] IN
    IF ~AddrValid(recipient) THEN Outcome(st, generic_err("addr_validate"))
    ELSE IF any_transfer(state.file_transfers, file_hash, recipient)
    THEN Outcome(st, generic_err("File transfer already exists"))
    ELSE LET amount == transfer_amount(funds) IN
    IF mul_overflows(amount, state.fee_percentage) THEN Outcome(st, Panic)
    ELSE LET fee == transfer_fee(amount, state.fee_percentage)
             transfer == FileTransfer(file_hash, sender, recipient, time, fee)
         IN Outcome(<<[state EXCEPT !.file_transfers = Append(@, transfer)]>>,
                    Ok(<< <<"action", "record_transfer">>, <<"file_hash", file_hash>>,
                          <<"recipient", recipient>>, <<"transfer_fee", ToString(fee)>> >>,
                       <<>>))

\* withdraw_fees: no balance check
main_withdraw_fees(st, sender, amount) ==
    IF st = <<>> THEN Outcome(st, not_found("State"))
    ELSE LET state == st[1] IN
    IF sender # state.admin THEN Outcome(st, generic_err("Unauthorized"))
    ELSE Outcome(st, Ok(<< <<"action", "withdraw_fees">>, <<"amount", ToString(amount)>> >>,
                        <<BankSend(sender, amount)>>))

\* set_fee_percentage
main_set_fee_percentage(st, sender, percentage) ==
    IF st = <<>> THEN Outcome(st, not_found("State"))
    ELSE LET state == st[1] IN
    IF sender # state.admin THEN Outcome(st, generic_err("Unauthorized"))
    ELSE IF percentage > BASIS_POINTS THEN Outcome(st, generic_err(FeeRangeMsg))
    ELSE Outcome(<<[state EXCEPT !.fee_percentage = percentage]>>,
                 Ok(<< <<"action", "set_fee_percentage">>,
                       <<"percentage", ToString(percentage)>> >>, <<>>))

(***************************************************************************)
(* The queries, pure reads of the storage: Ok with the value, or an error. *)
(***************************************************************************)
QueryOk(value) == [kind |-> "Ok", msg |-> "", data |-> <<value>>]
QueryErr(e) == [kind |-> e.kind, msg |-> e.msg, data |-> <<>>]

\* query_file_transfers (zk build)
query_file_transfers(st) ==
    IF st = <<>> THEN QueryErr(Panic) ELSE QueryOk(st[1].file_transfers)

\* query_verify_transfer matching on the file hash alone
query_verify_transfer_hash_only(st, file_hash, recipient) ==
    IF st = <<>> THEN QueryErr(Panic)
    ELSE QueryOk(\E i \in 1..Len(st[1].file_transfers) :
                    st[1].file_transfers[i].file_hash = file_hash)

\* query_verify_transfer (zk build)
query_verify_transfer(st, file_hash, recipient) ==
    IF st = <<>> THEN QueryErr(Panic)
    ELSE QueryOk(any_transfer(st[1].file_transfers, file_hash, recipient))

\* query_fee_percentage (zk build)
query_fee_percentage(st) ==
    IF st = <<>> THEN QueryErr(Panic) ELSE QueryOk(st[1].fee_percentage)

\* query_contract_balance (zk build): query_balance asks the bank module, no State is read
query_contract_balance(balance) == QueryOk(balance)

\* query (zk build): the dispatch on QueryMsg
query(st, msg, file_hash, recipient, balance) ==
    CASE msg = "get_file_transfers" -> query_file_transfers(st)
      [] msg = "verify_transfer" -> query_verify_transfer(st, file_hash, recipient)
      [] msg = "get_contract_balance" -> query_contract_balance(balance)
      [] msg = "get_fee_percentage" -> query_fee_percentage(st)

\* query_file_transfers (main build)
main_query_file_transfers(st) ==
    IF st = <<>> THEN QueryErr(not_found("State")) ELSE QueryOk(st[1].file_transfers)

\* query_verify_transfer (main build): the recipient goes through addr_validate
main_query_verify_transfer(st, file_hash, recipient) ==
    IF st = <<>> THEN QueryErr(not_found("State"))
    ELSE IF ~AddrValid(recipient) THEN QueryErr(generic_err("addr_validate"))
    ELSE QueryOk(any_transfer(st[1].file_transfers, file_hash, recipient))

\* query_fee_percentage (main build)
main_query_fee_percentage(st) ==
    IF st = <<>> THEN QueryErr(not_found("State")) ELSE QueryOk(st[1].fee_percentage)

\* query (main build): the dispatch on QueryMsg; GetContractBalance answers Uint128::zero()
main_query(st, msg, file_hash, recipient) ==
    CASE msg = "get_file_transfers" -> main_query_file_transfers(st)
      [] msg = "verify_transfer" -> main_query_verify_transfer(st, file_hash, recipient)
      [] msg = "get_contract_balance" -> QueryOk(0)
      [] msg = "get_fee_percentage" -> main_query_fee_percentage(st)

\* enum QueryMsg
QueryMsgs == {"get_file_transfers", "verify_transfer", "get_contract_balance",
              "get_fee_percentage"}
\* enum ExecuteMsg
ExecuteMsgs == {"record_transfer", "withdraw_fees", "set_fee_percentage"}

(***************************************************************************)
(* The state machine.  `call` is the message of the last call (entry       *)
(* point, info.sender, info.funds and the message's fields), `response`    *)
(* what it returned, `recorded` the (file_hash, recipient) pairs of the    *)
(* record_transfer calls that returned Ok (a history variable).  A         *)
(* withdraw_fees call also holds in `balance` the usei the bank module has *)
(* for the contract while the call runs.                                   *)
(***************************************************************************)
Call(op, sender, funds, file_hash, recipient, zk_proof, value) ==
    [op |-> op, sender |-> sender, funds |-> funds, file_hash |-> file_hash,
     recipient |-> recipient, zk_proof |-> zk_proof, value |-> value, balance |-> 0]

NoCall == Call("none", "", <<>>, "", "", MalformedBlob, 0)

Init ==
    /\ variant \in Variants
    /\ storage = <<>>
    /\ call = NoCall
    /\ response = Ok(<<>>, <<>>)
    /\ recorded = {}

\* the length of the stored ledger (0 before instantiate)
Ledger == IF storage = <<>> THEN <<>> ELSE storage[1].file_transfers

\* a call's outcome takes effect
Commit(c, out) ==
    /\ storage' = out.storage
    /\ call' = c
    /\ response' = out.response
    /\ recorded' = IF c.op = "record_transfer" /\ out.response.kind = "Ok"
                   THEN recorded \cup {<<c.file_hash, c.recipient>>} ELSE recorded
    /\ UNCHANGED variant

\* the host runs instantiate once, when the contract is created
Instantiate ==
    /\ storage = <<>>
    /\ \E sender \in Senders, fee_percentage \in Rates :
          Commit(Call("instantiate", sender, <<>>, "", "", MalformedBlob, fee_percentage),
                 IF variant = "zk" THEN instantiate(storage, sender, fee_percentage)
                 ELSE main_instantiate(storage, sender, fee_percentage))

\* execute(ExecuteMsg::RecordTransfer) on the zk build
RecordTransfer ==
    /\ variant = "zk"
    /\ Len(Ledger) < MaxTransfers
    /\ \E sender \in Senders, funds \in FundsSet, file_hash \in FileHashes,
          recipient \in Recipients, zk_proof \in ProofBlobs :
          \E out \in { record_transfer(storage, sender, time, funds, file_hash, recipient,
                                       zk_proof, seed) : time \in Times, seed \in CrsSeeds } :
              Commit(Call("record_transfer", sender, funds, file_hash, recipient, zk_proof, 0),
                     out)

\* execute(ExecuteMsg::RecordTransfer) on the main build
MainRecordTransfer ==
    /\ variant = "main"
    /\ Len(Ledger) < MaxTransfers
    /\ \E sender \in Senders, funds \in FundsSet, file_hash \in FileHashes,
          recipient \in MainRecipients :
          \E out \in { main_record_transfer(storage, sender, time, funds, file_hash, recipient) :
                         time \in Times } :
              Commit(Call("record_transfer", sender, funds, file_hash, recipient,
                          MalformedBlob, 0), out)

\* execute(ExecuteMsg::WithdrawFees) on the zk build
WithdrawFees ==
    /\ variant = "zk"
    /\ \E sender \in Senders, amount \in WithdrawAmounts, balance \in Balances :
          Commit([Call("withdraw_fees", sender, <<>>, "", "", MalformedBlob, amount)
                     EXCEPT !.balance = balance],
                 withdraw_fees(storage, sender, amount, balance))

\* execute(ExecuteMsg::WithdrawFees) on the main build
MainWithdrawFees ==
    /\ variant = "main"
    /\ \E sender \in Senders, amount \in WithdrawAmounts, balance \in Balances :
          Commit([Call("withdraw_fees", sender, <<>>, "", "", MalformedBlob, amount)
                     EXCEPT !.balance = balance],
                 main_withdraw_fees(storage, sender, amount))

\* execute(ExecuteMsg::SetFeePercentage) on either build
SetFeePercentage ==
    /\ variant \in Variants
    /\ \E sender \in Senders, percentage \in Rates :
          Commit(Call("set_fee_percentage", sender, <<>>, "", "", MalformedBlob, percentage),
                 IF variant = "zk" THEN set_fee_percentage(storage, sender, percentage)
                 ELSE main_set_fee_percentage(storage, sender, percentage))

\* query(QueryMsg) on either build: the entry point gets Deps, it cannot write the storage
Query ==
    /\ variant \in Variants
    /\ UNCHANGED <<variant, storage, recorded>>
    /\ \E msg \in QueryMsgs :
          \E file_hash \in (IF msg = "verify_transfer" THEN FileHashes ELSE {""}),
             recipient \in (IF msg = "verify_transfer" THEN Recipients ELSE {""}),
             balance \in (IF msg = "get_contract_balance" THEN Balances ELSE {0}) :
              /\ call' = [Call(msg, "", <<>>, file_hash, recipient, MalformedBlob, 0)
                             EXCEPT !.balance = balance]
              /\ response' = IF variant = "zk"
                             THEN query(storage, msg, file_hash, recipient, balance)
                             ELSE main_query(storage, msg, file_hash, recipient)

Next ==
    \/ Instantiate
    \/ RecordTransfer
    \/ MainRecordTransfer
    \/ WithdrawFees
    \/ MainWithdrawFees
    \/ SetFeePercentage
    \/ Query

Spec == Init /\ [][Next]_vars

(***************************************************************************)
(* The functions under the handlers, called on their own on drawn          *)
(* arguments: `call` is the function with its arguments (and, for the two  *)
(* functions of Proof, the parameters generate_random_parameters draws     *)
(* inside it), `response` what it returns.  No storage is involved.  The   *)
(* [u8; 32] arguments file_hash, recipient and secret of synthesize and    *)
(* Proof::new are the fields h, r and s of the call.                       *)
(* mod zk_proof is part of the zk build only.                              *)
(***************************************************************************)
\* the elements of the scalar field
Scalars == 0..(ScalarModulus - 1)
\* usei amounts: small ones, and the ones around Uint128::MAX / 10000 and Uint128::MAX
Amounts == {0, 1, 39, 40, 10003, Uint128Max \div BASIS_POINTS,
            (Uint128Max \div BASIS_POINTS) + 1, Uint128Max}

\* FileTransferCircuit::synthesize on assigned values: is the constraint system satisfied
Synthesize ==
    /\ variant = "zk"
    /\ UNCHANGED <<variant, storage, recorded>>
    /\ \E h \in Scalars, r \in Scalars, s \in Scalars :
          /\ call' = [op |-> "synthesize", h |-> h, r |-> r, s |-> s]
          /\ response' = Satisfied(h, r, s)

\* Proof::new(file_hash, recipient, secret)
ProofNew ==
    /\ variant = "zk"
    /\ UNCHANGED <<variant, storage, recorded>>
    /\ \E seed \in CrsSeeds, h \in Scalars, r \in Scalars, s \in Scalars :
          /\ call' = [op |-> "Proof::new", params |-> seed, h |-> h, r |-> r, s |-> s]
          /\ response' = Proof_new(seed, h, r, s)

\* proof.verify(file_hash, recipient) on the proof Proof::new has just returned
ProofVerify ==
    /\ variant = "zk"
    /\ UNCHANGED <<variant, storage, recorded>>
    /\ call.op = "Proof::new"
    /\ \E seed \in CrsSeeds, file_hash \in FileHashes, recipient \in Recipients :
          /\ call' = [op |-> "Proof::verify", params |-> seed, zk_proof |-> response,
                      file_hash |-> file_hash, recipient |-> recipient]
          /\ response' = Proof_verify(seed, response, file_hash, recipient)

\* the fee computation of record_transfer: the checked product, then the division
ComputeFee ==
    /\ UNCHANGED <<variant, storage, recorded>>
    /\ \E amount \in Amounts, fee_percentage \in Rates :
          /\ call' = [op |-> "transfer_fee", amount |-> amount,
                      fee_percentage |-> fee_percentage]
          /\ response' = IF mul_overflows(amount, fee_percentage)
                         THEN [kind |-> "Panic", fee |-> 0]
                         ELSE [kind |-> "Ok", fee |-> transfer_fee(amount, fee_percentage)]

UnitNext ==
    \/ Synthesize
    \/ ProofNew
    \/ ProofVerify
    \/ ComputeFee

UnitSpec == Init /\ [][UnitNext]_vars

(***************************************************************************)
(* What the answers of the deployed build are, and how the errors of the   *)
(* two builds map to the error kinds of the design.                        *)
(***************************************************************************)
\* query(QueryMsg::VerifyTransfer) on the deployed build
VerifyTransfer(file_hash, recipient) ==
    IF variant = "zk" THEN query_verify_transfer(storage, file_hash, recipient)
    ELSE main_query_verify_transfer(storage, file_hash, recipient)

\* the zk build has typed errors; the main build returns the same texts as generic errors
IsDuplicateTransfer(r) == r = DuplicateTransfer \/ r = generic_err("File transfer already exists")
IsUnauthorized(r) == r = Unauthorized \/ r = generic_err("Unauthorized")
IsInvalidRate(r) == r = generic_err(FeeRangeMsg)
IsInvalidProof(r) == r = InvalidProof
\* the main build answers a missing State with StdError::not_found("State")
IsNotInitialized(r) == r.kind = "StdError::NotFound" /\ r.msg = "State"

\* query(QueryMsg::GetFileTransfers) on the deployed build
GetFileTransfers ==
    IF variant = "zk" THEN query_file_transfers(storage)
    ELSE main_query_file_transfers(storage)

Instantiated == storage # <<>>
\* sequence s is the beginning of sequence t
IsPrefix(s, t) == Len(s) <= Len(t) /\ SubSeq(t, 1, Len(s)) = s
\* the (file_hash, recipient) pair of a transfer
PairOf(t) == <<t.file_hash, t.recipient>>
\* no verifying key accepts the blob for (file_hash, recipient): Proof::verify cannot return true
Rejected(blob, file_hash, recipient) ==
    \A seed \in CrsSeeds : Proof_verify(seed, blob, file_hash, recipient) # "true"
\* the blob comes from Proof::new for (file_hash, recipient) with a secret satisfying the relation
Honest(blob, file_hash, recipient) ==
    /\ Provable(file_hash) /\ Provable(recipient)
    /\ \E seed \in ProverSeeds : blob = HonestProof(seed, file_hash, recipient)

(***************************************************************************)
(* C1: the ledger never holds two transfers with the same                  *)
(* (file_hash, recipient) pair.                                            *)
(***************************************************************************)
C1_UniquePairs ==
    \A i, j \in 1..Len(Ledger) : PairOf(Ledger[i]) = PairOf(Ledger[j]) => i = j

\* two transfers of the same file to two recipients are in the ledger
C1_Witness ==
    /\ Len(Ledger) = 2
    /\ Ledger[1].file_hash = Ledger[2].file_hash
    /\ Ledger[1].recipient # Ledger[2].recipient

(***************************************************************************)
(* C2: a record_transfer call whose proof no verification accepts for its  *)
(* (file_hash, recipient) appends nothing and does not return Ok.  (The    *)
(* claim says more, that the error is InvalidProof; this is its core.)     *)
(***************************************************************************)
C2_ProofGating ==
    [][(call'.op = "record_transfer"
        /\ Rejected(call'.zk_proof, call'.file_hash, call'.recipient))
       => (Ledger' = Ledger /\ response'.kind # "Ok")]_vars

(***************************************************************************)
(* C3: a record_transfer call for a pair not in the ledger, with a proof   *)
(* made by Proof::new for that pair with a satisfying secret, returns Ok   *)
(* and appends exactly one transfer, for that pair.                        *)
(***************************************************************************)
C3_HonestProofRecorded ==
    [][(/\ call'.op = "record_transfer"
        /\ Instantiated
        /\ Honest(call'.zk_proof, call'.file_hash, call'.recipient)
        /\ ~any_transfer(Ledger, call'.file_hash, call'.recipient))
       => (/\ response'.kind = "Ok"
           /\ Len(Ledger') = Len(Ledger) + 1
           /\ SubSeq(Ledger', 1, Len(Ledger)) = Ledger
           /\ PairOf(Ledger'[Len(Ledger')]) = <<call'.file_hash, call'.recipient>>)]_vars

(***************************************************************************)
(* C4: once record_transfer has returned Ok for (file_hash, recipient),    *)
(* every later record_transfer for that pair fails with the duplicate      *)
(* error and changes nothing, whatever its proof and whoever calls.        *)
(***************************************************************************)
C4_DuplicateRejected ==
    [][(call'.op = "record_transfer" /\ <<call'.file_hash, call'.recipient>> \in recorded)
       => (IsDuplicateTransfer(response') /\ storage' = storage)]_vars

\* a recorded pair was submitted again with a blob that cannot even be parsed, by another sender
C4_Witness ==
    /\ variant = "zk"
    /\ call.op = "record_transfer"
    /\ call.zk_proof = MalformedBlob
    /\ <<call.file_hash, call.recipient>> \in recorded
    /\ Len(Ledger) = 1 /\ Ledger[1].sender # call.sender
    /\ response = DuplicateTransfer

(***************************************************************************)
(* C5: the stored fee rate is between 0 and 10000 in every state from      *)
(* instantiate on.                                                         *)
(***************************************************************************)
C5_FeeRateInRange ==
    Instantiated => (0 <= storage[1].fee_percentage /\ storage[1].fee_percentage <= 10000)

(***************************************************************************)
(* C6: the fee of a transfer is floor(amount * rate / 10000), for the usei *)
(* amount attached to the record_transfer call that appends it and the     *)
(* rate stored when the call starts; no step changes the fee of a transfer *)
(* that is already in the ledger.                                          *)
(***************************************************************************)
RECURSIVE AttachedUsei(_)
\* the usei attached to a call: the amounts of its usei coins (0 when there is none)
AttachedUsei(funds) ==
    IF funds = <<>> THEN 0
    ELSE (IF Head(funds).denom = "usei" THEN Head(funds).amount ELSE 0)
         + AttachedUsei(Tail(funds))

\* q = floor(a * r / 10000)
IsFloorOfBps(q, a, r) == q * 10000 <= a * r /\ a * r < (q + 1) * 10000

C6_FeeOfAmount ==
    [][/\ \A i \in 1..Len(Ledger) :
             i <= Len(Ledger') /\ Ledger'[i].transfer_fee = Ledger[i].transfer_fee
       /\ Len(Ledger') # Len(Ledger) =>
             /\ call'.op = "record_transfer"
             /\ Len(Ledger') = Len(Ledger) + 1
             /\ IsFloorOfBps(Ledger'[Len(Ledger')].transfer_fee,
                             AttachedUsei(call'.funds), storage[1].fee_percentage)]_vars

\* a transfer recorded at 250 bps with 10003 usei attached holds the fee 250 (250.075 rounded
\* down) after the rate has been set to another value
C6_Witness ==
    /\ call.op = "set_fee_percentage" /\ response.kind = "Ok"
    /\ storage[1].fee_percentage = 10000
    /\ \E i \in 1..Len(Ledger) : Ledger[i].transfer_fee = 250

(***************************************************************************)
(* C7: withdraw_fees and set_fee_percentage called by anyone but the       *)
(* stored admin fail with the unauthorized error, leave the State as it    *)
(* was and emit no message.                                                *)
(***************************************************************************)
C7_NonAdminRejected ==
    [][(/\ call'.op \in {"withdraw_fees", "set_fee_percentage"}
        /\ Instantiated
        /\ call'.sender # storage[1].admin)
       => (IsUnauthorized(response') /\ storage' = storage /\ response'.msgs = <<>>)]_vars

\* a non-admin asked for a withdrawal of an amount the contract could pay
C7_Witness ==
    /\ Instantiated
    /\ call.op = "withdraw_fees" /\ call.value = 5
    /\ call.sender # storage[1].admin
    /\ IsUnauthorized(response)

(***************************************************************************)
(* C8: set_fee_percentage called by the admin stores a rate of at most     *)
(* 10000 and returns Ok; a rate above 10000 fails with the rate error and  *)
(* the stored rate stays.                                                  *)
(***************************************************************************)
C8_RateBoundary ==
    [][(/\ call'.op = "set_fee_percentage"
        /\ Instantiated
        /\ call'.sender = storage[1].admin)
       => IF call'.value <= 10000
          THEN /\ response'.kind = "Ok"
               /\ storage' = <<[storage[1] EXCEPT !.fee_percentage = call'.value]>>
          ELSE /\ IsInvalidRate(response')
               /\ storage' = storage]_vars

\* the rate was set to exactly 10000, and then 10001 was refused
C8_Witness ==
    /\ Instantiated
    /\ call.op = "set_fee_percentage" /\ call.value = 10001
    /\ call.sender = storage[1].admin
    /\ IsInvalidRate(response)
    /\ storage[1].fee_percentage = 10000

(***************************************************************************)
(* C9, as claimed: from instantiate on, the verify_transfer query answers  *)
(* for every pair whether a record_transfer for that pair has returned Ok. *)
(***************************************************************************)
C9_Membership ==
    Instantiated =>
        \A fh \in FileHashes, r \in Recipients :
            VerifyTransfer(fh, r) = QueryOk(<<fh, r>> \in recorded)

(***************************************************************************)
(* C9, amended: the same, except that the main build, which validates the  *)
(* recipient, answers a string that is no valid address with an error; no  *)
(* pair with such a recipient is ever recorded.                            *)
(***************************************************************************)
C9_MembershipOfValidPairs ==
    Instantiated =>
        \A fh \in FileHashes, r \in Recipients :
            IF variant = "main" /\ ~AddrValid(r)
            THEN VerifyTransfer(fh, r) = QueryErr(generic_err("addr_validate"))
                 /\ <<fh, r>> \notin recorded
            ELSE VerifyTransfer(fh, r) = QueryOk(<<fh, r>> \in recorded)

\* right after a record_transfer for (h1, a1): true for that pair, false for (h1, a2)
C9_Witness ==
    /\ call.op = "record_transfer" /\ response.kind = "Ok"
    /\ call.file_hash = "h1" /\ call.recipient = "a1"
    /\ VerifyTransfer("h1", "a1") = QueryOk(TRUE)
    /\ VerifyTransfer("h1", "a2") = QueryOk(FALSE)

(***************************************************************************)
(* C10: an execute call that does not return Ok (an error or a panic)      *)
(* leaves the stored State as it was.                                      *)
(***************************************************************************)
C10_FailureAtomic ==
    [][(/\ call'.op \in {"record_transfer", "withdraw_fees", "set_fee_percentage"}
        /\ response'.kind # "Ok")
       => storage' = storage]_vars

\* the admin's out-of-range rate was refused on a ledger that holds a transfer
C10_Witness ==
    /\ call.op = "set_fee_percentage" /\ IsInvalidRate(response)
    /\ Len(Ledger) = 1
    /\ storage[1].fee_percentage = 250

(***************************************************************************)
(* C11: the transfers are append-only.  From instantiate on, what the      *)
(* get_file_transfers query returns before a step is a prefix of what it   *)
(* returns after it, and a record_transfer that returns Ok adds exactly    *)
(* one transfer, its own, at the end.                                      *)
(***************************************************************************)
C11_AppendOnly ==
    [][Instantiated =>
         /\ GetFileTransfers.kind = "Ok" /\ GetFileTransfers'.kind = "Ok"
         /\ IsPrefix(GetFileTransfers.data[1], GetFileTransfers'.data[1])
         /\ (call'.op = "record_transfer" /\ response'.kind = "Ok") =>
               LET old == GetFileTransfers.data[1]
                   new == GetFileTransfers'.data[1]
               IN /\ Len(new) = Len(old) + 1
                  /\ PairOf(new[Len(new)]) = <<call'.file_hash, call'.recipient>>
                  /\ new[Len(new)].sender = call'.sender]_vars

\* two transfers by two senders are listed in the order of their recording, after a later
\* change of the rate
C11_Witness ==
    /\ call.op = "set_fee_percentage" /\ response.kind = "Ok"
    /\ GetFileTransfers.kind = "Ok"
    /\ Len(GetFileTransfers.data[1]) = 2
    /\ GetFileTransfers.data[1][1].sender # GetFileTransfers.data[1][2].sender
    /\ <<"h1", "a1">> \in recorded /\ <<"h1", "a2">> \in recorded

(***************************************************************************)
(* C12: instantiate stores an empty transfer sequence and its caller as    *)
(* admin, and no later step changes the admin.                             *)
(***************************************************************************)
C12_AdminFixed ==
    [][/\ call'.op = "instantiate" =>
             /\ storage' # <<>>
             /\ storage'[1].file_transfers = <<>>
             /\ storage'[1].admin = call'.sender
       /\ Instantiated =>
             /\ call'.op # "instantiate"
             /\ storage' # <<>>
             /\ storage'[1].admin = storage[1].admin]_vars

\* a1 deployed; a2 has recorded a transfer and has tried to set the rate: a1 is still admin
C12_Witness ==
    /\ Instantiated
    /\ storage[1].admin = "a1"
    /\ call.op = "set_fee_percentage" /\ call.sender = "a2"
    /\ Len(Ledger) = 1 /\ Ledger[1].sender = "a2"

(***************************************************************************)
(* C13: withdraw_fees called by the admin with an amount the contract's    *)
(* usei balance covers returns Ok with one bank send of that amount to the *)
(* caller; with a larger amount it fails with InsufficientFunds and sends  *)
(* nothing.                                                                *)
(***************************************************************************)
C13_WithdrawWithinBalance ==
    [][(/\ call'.op = "withdraw_fees"
        /\ Instantiated
        /\ call'.sender = storage[1].admin)
       => IF call'.value <= call'.balance
          THEN /\ response'.kind = "Ok"
               /\ response'.msgs = <<BankSend(call'.sender, call'.value)>>
          ELSE /\ response' = InsufficientFunds
               /\ response'.msgs = <<>>]_vars

(***************************************************************************)
(* C14: verify checks a proof against the verifying key of the parameters  *)
(* the proof was created with (one CRS, shared by Proof::new and           *)
(* Proof::verify).                                                         *)
(***************************************************************************)
C14_SharedCrs ==
    [][call'.op = "Proof::verify" => call'.params = call'.zk_proof.params]_vars

(***************************************************************************)
(* C15: in the build that verifies proofs, a record_transfer call for a    *)
(* pair not in the ledger with a proof blob that does not parse returns    *)
(* InvalidProof (verify answers false, it does not abort) and leaves the   *)
(* State as it was.                                                        *)
(***************************************************************************)
C15_MalformedProofIsInvalid ==
    [][(/\ variant = "zk"
        /\ call'.op = "record_transfer"
        /\ Instantiated
        /\ ~call'.zk_proof.wf
        /\ ~any_transfer(Ledger, call'.file_hash, call'.recipient))
       => (IsInvalidProof(response') /\ storage' = storage)]_vars

(***************************************************************************)
(* C16: in the build that verifies proofs, a record_transfer call never    *)
(* aborts because of its file_hash or recipient string: with a proof blob  *)
(* that parses and a fee product that fits, the call returns Ok or an      *)
(* error, whatever the length and the content of the two strings.          *)
(***************************************************************************)
C16_EncodingTotal ==
    [][(/\ variant = "zk"
        /\ call'.op = "record_transfer"
        /\ Instantiated
        /\ call'.zk_proof.wf
        /\ ~mul_overflows(AttachedUsei(call'.funds), storage[1].fee_percentage))
       => response'.kind # "Panic"]_vars

(***************************************************************************)
(* C17: the constraint system is satisfied by the public inputs (h, r) and *)
(* the witness s exactly when s = h + r in the scalar field; for each      *)
(* (h, r) exactly one s satisfies it.                                      *)
(***************************************************************************)
C17_Relation ==
    [][call'.op = "synthesize" =>
         /\ response' <=> (call'.s = (call'.h + call'.r) % ScalarModulus)
         /\ Cardinality({s \in Scalars : Satisfied(call'.h, call'.r, s)}) = 1]_vars

\* a satisfying assignment whose sum wraps around the field order: s is h + r - ScalarModulus
C17_Witness ==
    /\ call.op = "synthesize"
    /\ response = TRUE
    /\ call.h + call.r > ScalarModulus
    /\ call.s = call.h + call.r - ScalarModulus

(***************************************************************************)
(* C18: the fee computation of record_transfer returns                     *)
(* floor(amount * rate / 10000) for every amount of a Uint128 and every    *)
(* rate from 0 to 10000: it does not fail.                                 *)
(***************************************************************************)
C18_FeeTotal ==
    [][(call'.op = "transfer_fee" /\ call'.fee_percentage <= 10000) =>
         /\ response'.kind = "Ok"
         /\ LET rest == call'.amount * call'.fee_percentage - response'.fee * 10000
            IN 0 <= rest /\ rest < 10000]_vars

(***************************************************************************)
(* C19: before instantiate, every execute call and each of the queries     *)
(* get_file_transfers, verify_transfer and get_fee_percentage returns the  *)
(* not-initialized error, and the storage stays without a State.           *)
(***************************************************************************)
C19_NotInitialized ==
    [][(/\ ~Instantiated
        /\ call'.op \in ExecuteMsgs \cup (QueryMsgs \ {"get_contract_balance"}))
       => (IsNotInitialized(response') /\ storage' = <<>>)]_vars

(***************************************************************************)
(* C20: a record_transfer that returns Ok leaves admin and fee_percentage  *)
(* as they were, a set_fee_percentage that returns Ok leaves the transfers *)
(* and the admin as they were, withdraw_fees and every query leave the     *)
(* whole storage as it was, and a get_file_transfers query that follows    *)
(* another returns what the first returned.                                *)
(***************************************************************************)
C20_Frame ==
    [][/\ (call'.op = "record_transfer" /\ response'.kind = "Ok") =>
             /\ storage'[1].admin = storage[1].admin
             /\ storage'[1].fee_percentage = storage[1].fee_percentage
       /\ (call'.op = "set_fee_percentage" /\ response'.kind = "Ok") =>
             /\ storage'[1].file_transfers = storage[1].file_transfers
             /\ storage'[1].admin = storage[1].admin
       /\ call'.op \in {"withdraw_fees"} \cup QueryMsgs => storage' = storage
       /\ (call.op = "get_file_transfers" /\ call'.op = "get_file_transfers") =>
             response' = response]_vars

\* the admin has changed the rate over a ledger of two transfers, and the listing that
\* follows shows the two
C20_Witness ==
    /\ call.op = "get_file_transfers"
    /\ response.kind = "Ok"
    /\ Len(response.data[1]) = 2
    /\ storage[1].fee_percentage = 10000
    /\ response.data[1][1].transfer_fee = 250

(***************************************************************************)
(* C21: the fee of a transfer is at most the usei attached to the          *)
(* record_transfer call that appends it, whatever rate instantiate and     *)
(* set_fee_percentage have stored.  (No step changes the fee of a transfer *)
(* once it is in the ledger, so the step that appends it decides.)         *)
(***************************************************************************)
C21_FeeWithinAttached ==
    [][(call'.op = "record_transfer" /\ response'.kind = "Ok") =>
         /\ Len(Ledger') = Len(Ledger) + 1
         /\ Ledger'[Len(Ledger')].transfer_fee <= AttachedUsei(call'.funds)]_vars

====
